---- MODULE Spec2Model ----
(***************************************************************************)
(* Graph construction of the Wide-ResNet model, models/wide-resnet.py.     *)
(*                                                                         *)
(* WideRes22.__init__ builds a static TensorFlow-1 graph.  The model keeps *)
(* the graph as data: the sequence of operations created so far (each one  *)
(* with its inputs, its static shape and the variables it reads), the      *)
(* variable store of the default graph, the attributes of self, and the    *)
(* exception that ended construction, if any.  A tensor is the index of    *)
(* the operation that produces it; shapes leave the batch dimension out.   *)
(***************************************************************************)
EXTENDS Integers, Sequences, FiniteSets, TLC

\* Bounds of the explored inputs.
MaxBlocks == 2
MaxWidth == 2
MaxClasses == 2
MaxBatch == 2

ImgDims == {4, 8, 9, 29, 32, 33}
InChannels == {1, 3}
OutChannels == {<<16, 32, 64>>, <<2, 2, 2>>}
LearningRates == {1, 2}
Lambdas == {0, 2}
ScoreVals == {0, 1}

VARIABLES args, prior, pc, graph, stages, result

vars == <<args, prior, pc, graph, stages, result>>

NoErr == "none"

Range(s) == {s[i] : i \in 1..Len(s)}

Last(s) == s[Len(s)]

CeilDiv(a, b) == (a + b - 1) \div b

\* Statement sequencing: the value of x is computed once, then F continues
\* with it (the later statements of a Python function body).
Then(x, F(_)) == CHOOSE r \in {F(v) : v \in {x}} : TRUE

----------------------------------------------------------------------------
(* The framework primitives the file calls, as far as graph construction   *)
(* goes: what operation each creates, with which static shape, which       *)
(* variables it creates, and when it raises.                               *)

MkOp(kind, scope, ins, shape, vs, k, stride, padding, coeff) ==
    [kind |-> kind, scope |-> scope, ins |-> ins, shape |-> shape, vars |-> vs,
     k |-> k, stride |-> stride, padding |-> padding, coeff |-> coeff]

AddOp(G, op) ==
    IF G.error # NoErr THEN G ELSE [G EXCEPT !.ops = Append(@, op)]

Raise(G, e) ==
    IF G.error # NoErr THEN G ELSE [G EXCEPT !.error = e]

\* The tensor most recently created in G.
Top(G) == Len(G.ops)

HasVar(G, name) == \E i \in 1..Len(G.vars) : G.vars[i].name = name

VarShape(G, name) == (CHOOSE v \in Range(G.vars) : v.name = name).shape

NewVar(G, name, shape, trainable) ==
    [G EXCEPT !.vars = Append(@, [name |-> name, shape |-> shape, trainable |-> trainable])]

\* tf.name_scope("%s-%s_conv_N" % (group_id, block_num + 1))
NameScope(group_id, block, suffix) ==
    ToString(group_id) \o "-" \o ToString(block) \o "_" \o suffix

\* The name tf.get_variable resolves: the current VARIABLE scope joined with
\* the name.  The file opens no variable scope, so the scope is the root one
\* whatever tf.name_scope is active.
VarName(nameScope, name) == <<"", 0, name>>

\* tf.get_variable(shape=..., initializer=..., name=...) under the default
\* reuse=False: creates the variable, and raises ValueError when a variable
\* of that name already exists.
GetVariable(G, nameScope, name, shape) ==
    IF G.error # NoErr THEN G
    ELSE IF HasVar(G, VarName(nameScope, name))
         THEN Raise(G, "ValueError: Variable already exists")
         ELSE NewVar(G, VarName(nameScope, name), shape, TRUE)

\* Output side of a convolution or pooling window of size k.
ConvOutSide(H, k, stride, padding) ==
    IF padding = "SAME" THEN CeilDiv(H, stride) ELSE CeilDiv(H - k + 1, stride)

\* tf.nn.conv2d(x, W, strides=[1, stride, stride, 1], padding=..., name="conv")
Conv2d(G, x, w, stride, padding, scope) ==
    IF G.error # NoErr THEN G
    ELSE LET xs == G.ops[x].shape
             ws == VarShape(G, w)
         IN IF xs[3] # ws[3]
                THEN Raise(G, "ValueError: input depth differs from the filter's")
            ELSE IF padding = "VALID" /\ xs[1] < ws[1]
                THEN Raise(G, "ValueError: Negative dimension size")
            ELSE AddOp(G, MkOp("conv2d", scope, <<x>>,
                               <<ConvOutSide(xs[1], ws[1], stride, padding),
                                 ConvOutSide(xs[2], ws[2], stride, padding), ws[4]>>,
                               <<w>>, ws[1], stride, padding, 0))

\* Number of batch-norm variable scopes already in the graph: the layer opens
\* variable_scope(None, default_name="BatchNorm"), which is made unique.
BatchNormCount(G) ==
    Cardinality({i \in 1..Len(G.vars) :
                    G.vars[i].name[1] = "BatchNorm" /\ G.vars[i].name[3] = "beta"})

\* tf.contrib.layers.batch_norm(x, decay=0.9, center=True, scale=True,
\*                              is_training=self.train_flag, ...)
BatchNorm(G, x, scope) ==
    IF G.error # NoErr THEN G
    ELSE LET n == BatchNormCount(G)
             c == <<Last(G.ops[x].shape)>>
             G1 == NewVar(G, <<"BatchNorm", n, "beta">>, c, TRUE)
             G2 == NewVar(G1, <<"BatchNorm", n, "gamma">>, c, TRUE)
             G3 == NewVar(G2, <<"BatchNorm", n, "moving_mean">>, c, FALSE)
             G4 == NewVar(G3, <<"BatchNorm", n, "moving_variance">>, c, FALSE)
         IN AddOp(G4, MkOp("batch_norm", scope, <<x, G.self.train_flag>>, G.ops[x].shape,
                           <<<<"BatchNorm", n, "beta">>, <<"BatchNorm", n, "gamma">>,
                             <<"BatchNorm", n, "moving_mean">>,
                             <<"BatchNorm", n, "moving_variance">>>>,
                           0, 0, "", 0))

\* tf.nn.relu(x, name="relu")
Relu(G, x, scope) ==
    IF G.error # NoErr THEN G
    ELSE AddOp(G, MkOp("relu", scope, <<x>>, G.ops[x].shape, <<>>, 0, 0, "", 0))

\* tf.add(a, b): operands of equal static shape; shapes that differ in a
\* dimension (neither being 1) are refused.
Add(G, a, b, scope) ==
    IF G.error # NoErr THEN G
    ELSE IF G.ops[a].shape # G.ops[b].shape
         THEN Raise(G, "ValueError: Dimensions must be equal")
         ELSE AddOp(G, MkOp("add", scope, <<a, b>>, G.ops[a].shape, <<>>, 0, 0, "", 0))

----------------------------------------------------------------------------
(* WideRes22.res_group                                                     *)

\* One iteration of the loop over block_num: returns the graph and the new
\* value of shortcut.
ResBlock(G, shortcut, stride, out_channels, group_id, block_num) ==
    LET in_dim == Last(G.ops[shortcut].shape)
        s1 == NameScope(group_id, block_num + 1, "conv_1")
        s2 == NameScope(group_id, block_num + 1, "conv_2")
        s3 == NameScope(group_id, block_num + 1, "conv_3")
    IN
    Then(BatchNorm(G, shortcut, s1), LAMBDA A1 :
    Then(Relu(A1, Top(A1), s1), LAMBDA out_1 :
    Then(GetVariable(out_1, s1, "weight", <<3, 3, in_dim, out_channels>>), LAMBDA A3 :
    Then(Conv2d(A3, Top(out_1), VarName(s1, "weight"), stride, "SAME", s1), LAMBDA conv_1 :
    Then(BatchNorm(conv_1, Top(conv_1), s2), LAMBDA B1 :
    Then(Relu(B1, Top(B1), s2), LAMBDA out_2 :
    Then(GetVariable(out_2, s2, "weight", <<3, 3, out_channels, out_channels>>), LAMBDA B3 :
    Then(Conv2d(B3, Top(out_2), VarName(s2, "weight"), 1, "SAME", s2), LAMBDA conv_2 :
    IF block_num = 0
    THEN
        Then(GetVariable(conv_2, s3, "weight", <<1, 1, in_dim, out_channels>>), LAMBDA E1 :
        Then(Conv2d(E1, Top(out_1), VarName(s3, "weight"), stride, "VALID", s3), LAMBDA conv_3 :
        Then(Add(conv_3, Top(conv_2), Top(conv_3), s3), LAMBDA sum :
            [G |-> sum, shortcut |-> Top(sum)])))
    ELSE
        Then(Add(conv_2, Top(conv_2), shortcut, ""), LAMBDA sum :
            [G |-> sum, shortcut |-> Top(sum)])))))))))

RECURSIVE ResGroupLoop(_, _, _, _, _, _, _)
ResGroupLoop(G, shortcut, stride, out_channels, n_blocks, group_id, block_num) ==
    IF block_num >= n_blocks \/ G.error # NoErr
    THEN [G |-> G, shortcut |-> shortcut]
    ELSE Then(ResBlock(G, shortcut, stride, out_channels, group_id, block_num), LAMBDA r :
            ResGroupLoop(r.G, r.shortcut, IF block_num = 0 THEN 1 ELSE stride,
                         out_channels, n_blocks, group_id, block_num + 1))

\* res_group(self, input_x, stride, out_channels, n_blocks, group_id)
res_group(G, input_x, stride, out_channels, n_blocks, group_id) ==
    ResGroupLoop(G, input_x, stride, out_channels, n_blocks, group_id, 0)

----------------------------------------------------------------------------
(* WideRes22.__init__, one operator per stage of the constructor.  Each    *)
(* takes the constructor's arguments a and the graph G built so far.       *)

SetSelf(G, field, v) ==
    IF G.error # NoErr THEN G ELSE [G EXCEPT !.self[field] = v]

Plain(kind, scope, ins, shape) == MkOp(kind, scope, ins, shape, <<>>, 0, 0, "", 0)

\* tf.placeholder x 3
Placeholders(a, G) ==
    Then(AddOp(G, Plain("placeholder", "input_x", <<>>,
                        <<a.img_dim, a.img_dim, a.in_channels>>)), LAMBDA G1 :
    Then(AddOp(SetSelf(G1, "input_x", Top(G1)),
               Plain("placeholder", "input_y", <<>>, <<a.n_classes>>)), LAMBDA G2 :
    Then(AddOp(SetSelf(G2, "input_y", Top(G2)),
               Plain("placeholder", "train_flag", <<>>, <<>>)), LAMBDA G3 :
        SetSelf(G3, "train_flag", Top(G3)))))

\* First "plain" convolution layer
Conv0(a, G) ==
    Then(GetVariable(G, "conv_0", "weight",
                     <<3, 3, a.in_channels, a.out_channels[1]>>), LAMBDA G1 :
    Then(Conv2d(G1, G.self.input_x, VarName("conv_0", "weight"), 1, "SAME", "conv_0"),
         LAMBDA G2 : SetSelf(G2, "out", Top(G2))))

GroupStride(group_id) == IF group_id = 1 THEN 1 ELSE 2

\* self.out = self.res_group(self.out, stride, out_channels[g-1] * width_mult,
\*                           n_blocks, group_id)
ResGroupStage(a, G, group_id) ==
    Then(res_group(G, G.self.out, GroupStride(group_id),
                   a.out_channels[group_id] * a.width_mult, a.n_blocks, group_id),
         LAMBDA r : SetSelf(r.G, "out", r.shortcut))

\* self.out = tf.nn.relu(batch_norm(self.out, ...), name="relu")
FinalBnRelu(a, G) ==
    Then(BatchNorm(G, G.self.out, ""), LAMBDA G1 :
    Then(Relu(G1, Top(G1), ""), LAMBDA G2 :
        SetSelf(G2, "out", Top(G2))))

\* tflearn avg_pool_2d(self.out, kernel_size=8, strides=[1, 1, 1, 1], padding="valid")
AvgPool(a, G) ==
    LET xs == G.ops[G.self.out].shape
    IN IF xs[1] < 8
       THEN Raise(G, "ValueError: Negative dimension size")
       ELSE Then(AddOp(G, MkOp("avg_pool", "avg-pool-2d", <<G.self.out>>,
                               <<ConvOutSide(xs[1], 8, 1, "VALID"),
                                 ConvOutSide(xs[2], 8, 1, "VALID"), xs[3]>>,
                               <<>>, 8, 1, "VALID", 0)),
                 LAMBDA G1 : SetSelf(G1, "out", Top(G1)))

\* tf.layers.dense(x, use_bias=True, units=..., name="scores")
Dense(G, x, units, name) ==
    IF G.error # NoErr THEN G
    ELSE IF HasVar(G, <<name, 0, "kernel">>) \/ HasVar(G, <<name, 0, "bias">>)
         THEN Raise(G, "ValueError: Variable already exists")
         ELSE AddOp(NewVar(NewVar(G, <<name, 0, "kernel">>,
                                  <<G.ops[x].shape[1], units>>, TRUE),
                           <<name, 0, "bias">>, <<units>>, TRUE),
                    MkOp("dense", name, <<x>>, <<units>>,
                         <<<<name, 0, "kernel">>, <<name, 0, "bias">>>>, 0, 0, "", 0))

\* flatten, the dense layer "scores", tf.argmax(self.scores, axis=1)
Classifier(a, G) ==
    LET xs == G.ops[G.self.out].shape
    IN
    Then(AddOp(G, Plain("flatten", "Flatten", <<G.self.out>>,
                        <<xs[1] * xs[2] * xs[3]>>)), LAMBDA G1 :
    Then(SetSelf(G1, "out", Top(G1)), LAMBDA G2 :
    Then(Dense(G2, G2.self.out, a.n_classes, "scores"), LAMBDA G3 :
    Then(AddOp(SetSelf(G3, "scores", Top(G3)),
               Plain("argmax", "predictions", <<Top(G3)>>, <<>>)), LAMBDA G4 :
        SetSelf(G4, "predictions", Top(G4))))))

\* tf.global_variables() in place of tf.trainable_variables(): every variable
\* of the graph, the batch-norm moving statistics included.
GlobalVariables(G) == [i \in 1..Len(G.vars) |-> G.vars[i].name]

\* tf.trainable_variables(): the trainable variables of the default graph,
\* in creation order.
TrainableVariables(G) ==
    LET RECURSIVE Pick(_)
        Pick(i) == IF i > Len(G.vars) THEN <<>>
                   ELSE (IF G.vars[i].trainable THEN <<G.vars[i].name>> ELSE <<>>)
                        \o Pick(i + 1)
    IN Pick(1)

\* with tf.name_scope("loss"): l2_loss, losses, self.loss
Loss(a, G) ==
    LET tv == TrainableVariables(G)
        n == Len(tv)
        base == Top(G)
        l2ops == [i \in 1..n |->
                    MkOp("l2_loss", "loss", <<>>, <<>>, <<tv[i]>>, 0, 0, "", 0)]
    IN
    IF n = 0 THEN Raise(G, "ValueError: inputs must be a list of at least one Tensor")
    ELSE
    Then([G EXCEPT !.ops = @ \o l2ops], LAMBDA G1 :
    Then(AddOp(G1, Plain("add_n", "loss", [i \in 1..n |-> base + i], <<>>)), LAMBDA l2_loss :
    Then(AddOp(l2_loss, Plain("softmax_cross_entropy_with_logits", "loss",
                              <<G.self.scores, G.self.input_y>>, <<>>)), LAMBDA losses :
    Then(AddOp(losses, Plain("reduce_mean", "loss", <<Top(losses)>>, <<>>)), LAMBDA mean :
    Then(AddOp(mean, MkOp("mul", "loss", <<Top(l2_loss)>>, <<>>, <<>>, 0, 0, "",
                          a.l2_reg_lambda)), LAMBDA reg :
    Then(AddOp(reg, Plain("add", "loss", <<Top(mean), Top(reg)>>, <<>>)), LAMBDA G6 :
        SetSelf(G6, "loss", Top(G6))))))))

\* The accuracy stage followed by an optimizer step built from learning_rate.
AccuracyThenMinimize(a, G) ==
    Then(AddOp(G, Plain("argmax", "accuracy", <<G.self.input_y>>, <<>>)), LAMBDA G1 :
    Then(AddOp(G1, Plain("equal", "accuracy", <<G.self.predictions, Top(G1)>>, <<>>)),
         LAMBDA G2 :
    Then(AddOp(G2, Plain("cast", "accuracy", <<Top(G2)>>, <<>>)), LAMBDA G3 :
    Then(AddOp(G3, Plain("reduce_mean", "accuracy", <<Top(G3)>>, <<>>)), LAMBDA G4 :
    Then(SetSelf(G4, "accuracy", Top(G4)), LAMBDA G5 :
        AddOp(G5, MkOp("minimize", "train", <<G5.self.loss>>, <<>>, <<>>, 0, 0, "",
                       a.learning_rate)))))))

\* with tf.name_scope("accuracy"): correct_predictions, self.accuracy
Accuracy(a, G) ==
    Then(AddOp(G, Plain("argmax", "accuracy", <<G.self.input_y>>, <<>>)), LAMBDA G1 :
    Then(AddOp(G1, Plain("equal", "accuracy", <<G.self.predictions, Top(G1)>>, <<>>)),
         LAMBDA G2 :
    Then(AddOp(G2, Plain("cast", "accuracy", <<Top(G2)>>, <<>>)), LAMBDA G3 :
    Then(AddOp(G3, Plain("reduce_mean", "accuracy", <<Top(G3)>>, <<>>)), LAMBDA G4 :
        SetSelf(G4, "accuracy", Top(G4))))))

----------------------------------------------------------------------------
(* Evaluating the graph on a fed batch: predictions and accuracy.          *)

\* An argmax that keeps the last index holding the maximum.
ArgMaxLast(row) ==
    LET RECURSIVE Scan(_, _)
        Scan(i, best) == IF i > Len(row) THEN best
                         ELSE Scan(i + 1, IF row[i] >= row[best] THEN i ELSE best)
    IN Scan(2, 1) - 1

\* tf.argmax over one row, 0-based: the first index holding the maximum.
ArgMax(row) ==
    LET RECURSIVE Scan(_, _)
        Scan(i, best) == IF i > Len(row) THEN best
                         ELSE Scan(i + 1, IF row[i] > row[best] THEN i ELSE best)
    IN Scan(2, 1) - 1

RECURSIVE SumSeq(_)
SumSeq(s) == IF s = <<>> THEN 0 ELSE s[1] + SumSeq(Tail(s))

\* tf.reduce_mean of a vector, as the fraction num/den; the mean of an empty
\* vector is NaN.
ReduceMean(s) ==
    IF Len(s) = 0 THEN [nan |-> TRUE, num |-> 0, den |-> 0]
    ELSE [nan |-> FALSE, num |-> SumSeq(s), den |-> Len(s)]

\* self.predictions and self.accuracy for the fed scores and labels.
Evaluate(scores, input_y) ==
    LET predictions == [r \in 1..Len(scores) |-> ArgMax(scores[r])]
        labels == [r \in 1..Len(input_y) |-> ArgMax(input_y[r])]
        correct_predictions == [r \in 1..Len(scores) |-> predictions[r] = labels[r]]
        cast == [r \in 1..Len(scores) |-> IF correct_predictions[r] THEN 1 ELSE 0]
    IN [fed |-> TRUE, scores |-> scores, input_y |-> input_y,
        predictions |-> predictions, accuracy |-> ReduceMean(cast)]

----------------------------------------------------------------------------
(* The state machine: the constructor runs its stages in program order;    *)
(* an exception ends it.                                                   *)

InitGraph(p) ==
    [ops |-> <<>>, vars |-> p, error |-> NoErr,
     self |-> [input_x |-> 0, input_y |-> 0, train_flag |-> 0, out |-> 0,
               scores |-> 0, predictions |-> 0, loss |-> 0, accuracy |-> 0]]

NoResult ==
    [fed |-> FALSE, scores |-> <<>>, input_y |-> <<>>, predictions |-> <<>>,
     accuracy |-> [nan |-> FALSE, num |-> 0, den |-> 0]]

\* Variables other code may have left in the default graph beforehand.
PriorVars ==
    {<<>>, <<[name |-> <<"embedding", 0, "table">>, shape |-> <<4>>, trainable |-> TRUE]>>}

ArgsSet ==
    [img_dim : ImgDims, n_classes : 1..MaxClasses, in_channels : InChannels,
     out_channels : OutChannels, width_mult : 1..MaxWidth, n_blocks : 0..MaxBlocks,
     learning_rate : LearningRates, l2_reg_lambda : Lambdas]

Start(a, p) ==
    /\ args = a
    /\ prior = p
    /\ pc = "placeholders"
    /\ graph = InitGraph(p)
    /\ stages = <<>>
    /\ result = NoResult

Init == \E a \in ArgsSet, p \in PriorVars : Start(a, p)

\* One stage of __init__: G2 is the graph the stage leaves.
Advance(stage, G2, next) ==
    /\ pc = stage
    /\ \E g \in {G2} :
         /\ graph' = g
         /\ stages' = IF g.error = NoErr THEN Append(stages, stage) ELSE stages
         /\ pc' = IF g.error = NoErr THEN next ELSE "failed"
    /\ UNCHANGED <<args, prior, result>>

DoPlaceholders == Advance("placeholders", Placeholders(args, graph), "conv_0")

DoConv0 == Advance("conv_0", Conv0(args, graph), "group_1")

DoGroup1 == Advance("group_1", ResGroupStage(args, graph, 1), "group_2")

DoGroup2 == Advance("group_2", ResGroupStage(args, graph, 2), "group_3")

DoGroup3 == Advance("group_3", ResGroupStage(args, graph, 3), "bn_relu")

DoFinalBnRelu == Advance("bn_relu", FinalBnRelu(args, graph), "avg_pool")

DoAvgPool == Advance("avg_pool", AvgPool(args, graph), "classifier")

DoClassifier == Advance("classifier", Classifier(args, graph), "loss")

DoLoss == Advance("loss", Loss(args, graph), "accuracy")

DoAccuracy == Advance("accuracy", Accuracy(args, graph), "done")

Build ==
    \/ DoPlaceholders
    \/ DoConv0
    \/ DoGroup1
    \/ DoGroup2
    \/ DoGroup3
    \/ DoFinalBnRelu
    \/ DoAvgPool
    \/ DoClassifier
    \/ DoLoss
    \/ DoAccuracy

Next == Build

Spec == Init /\ [][Next]_vars

\* A session run on a constructed model: a batch of score rows (the dense
\* layer's output) and label rows is fed and the accuracy fetched.  One run
\* per behaviour: a later run sees the same graph and no state of this one.
Run ==
    /\ pc = "done"
    /\ ~result.fed
    /\ \E b \in 0..MaxBatch :
         \E sc \in [1..b -> [1..args.n_classes -> ScoreVals]],
            y \in [1..b -> [1..args.n_classes -> ScoreVals]] :
            result' = Evaluate(sc, y)
    /\ UNCHANGED <<args, prior, pc, graph, stages>>

RunArgsSet ==
    [img_dim : {8}, n_classes : 1..MaxClasses, in_channels : {3},
     out_channels : {<<16, 32, 64>>}, width_mult : {1}, n_blocks : {0, 1},
     learning_rate : {1}, l2_reg_lambda : {0}]

InitRun == \E a \in RunArgsSet : Start(a, <<>>)

NextRun == Build \/ Run

SpecRun == InitRun /\ [][NextRun]_vars

----------------------------------------------------------------------------
(* Properties.                                                             *)

AllStages ==
    <<"placeholders", "conv_0", "group_1", "group_2", "group_3", "bn_relu",
      "avg_pool", "classifier", "loss", "accuracy">>

Terminated == pc \in {"done", "failed"}

\* Number of stages control has left behind, the failing one included.
StagesLeft == Len(stages) + (IF pc = "failed" THEN 1 ELSE 0)

OpsOfKind(kind) == {i \in 1..Len(graph.ops) : graph.ops[i].kind = kind}

ShapeOf(i) == graph.ops[i].shape

\* ceil(x / y), stated without the model's CeilDiv.
CeilOf(x, y) == CHOOSE q \in 0..x : q * y >= x /\ (q - 1) * y < x

\* Spatial side and channel count group g is to return.
GroupSide(g) ==
    IF g = 1 THEN args.img_dim
    ELSE IF g = 2 THEN CeilOf(args.img_dim, 2)
    ELSE CeilOf(CeilOf(args.img_dim, 2), 2)

GroupChannels(g) == args.out_channels[g] * args.width_mult

GroupShape(g) == <<GroupSide(g), GroupSide(g), GroupChannels(g)>>

\* C1: for every n_blocks >= 0 a run of __init__ creates every stage, in
\* program order, none skipped or repeated: once the constructor has ended it
\* has ended normally with the ten stages behind it, and at every moment the
\* stages created so far are a prefix of that order.
C1_AllStagesInOrder ==
    /\ Len(stages) <= Len(AllStages)
    /\ stages = SubSeq(AllStages, 1, Len(stages))
    /\ Terminated => (pc = "done" /\ stages = AllStages)

\* Position i starts a residual block: the batch norm opening scope g-k_conv_1.
IsBlockStart(i) ==
    /\ graph.ops[i].kind = "batch_norm"
    /\ \E g \in 1..3, k \in 1..(args.n_blocks) :
          graph.ops[i].scope = NameScope(g, k, "conv_1")

IsFirstBlock(i) ==
    \E g \in 1..3 : graph.ops[i].scope = NameScope(g, 1, "conv_1")

IsOp(i, kind, ins) ==
    /\ i \in 1..Len(graph.ops)
    /\ graph.ops[i].kind = kind
    /\ graph.ops[i].ins = ins

IsConv(i, x, k, stride) ==
    /\ IsOp(i, "conv2d", <<x>>)
    /\ graph.ops[i].k = k
    /\ graph.ops[i].stride = stride

\* The block begun at i computes F(x) + shortcut(x) on its own input x.
BlockWired(i) ==
    LET x == graph.ops[i].ins[1]
    IN /\ IsOp(i + 1, "relu", <<i>>)
       /\ \E st \in {1, 2} : IsConv(i + 2, i + 1, 3, st)
       /\ IsOp(i + 3, "batch_norm", <<i + 2, graph.self.train_flag>>)
       /\ IsOp(i + 4, "relu", <<i + 3>>)
       /\ IsConv(i + 5, i + 4, 3, 1)
       /\ IF IsFirstBlock(i)
          THEN /\ IsConv(i + 6, i + 1, 1, graph.ops[i + 2].stride)
               /\ IsOp(i + 7, "add", <<i + 5, i + 6>>)
               /\ x = i - 1
               /\ graph.ops[x].kind \in {"conv2d", "add"}
          ELSE /\ IsOp(i + 6, "add", <<i + 5, x>>)
               /\ x = i - 1
               /\ graph.ops[x].kind = "add"

\* C2: every block built by res_group computes output = F(input) +
\* shortcut(input) on the block's own input: F the BN-ReLU-conv3x3-BN-ReLU-
\* conv3x3 path, shortcut the identity, or the 1x1 convolution in the first
\* block of a group.
C2_BlockIsResidual ==
    \A i \in 1..Len(graph.ops) : IsBlockStart(i) => BlockWired(i)

\* The call of res_group for group g has ended, by return or by exception.
GroupEnded(g) == StagesLeft >= g + 2

\* C3: for n_blocks >= 1 res_group returns; the tensor it returns has
\* out_channels[g-1] * width_mult channels and side ceil(H / stride), and it
\* created exactly n_blocks residual additions.
C3_GroupReturnsStack ==
    \A g \in 1..3 :
        (args.n_blocks >= 1 /\ GroupEnded(g)) =>
            /\ Len(stages) >= g + 2
            /\ (Len(stages) = g + 2 /\ pc # "failed") =>
                  /\ ShapeOf(graph.self.out) = GroupShape(g)
                  /\ Cardinality(OpsOfKind("add")) = g * args.n_blocks

IsTrainable(name) == \E i \in 1..Len(graph.vars) :
                        graph.vars[i].name = name /\ graph.vars[i].trainable

GraphVarNames == {graph.vars[i].name : i \in 1..Len(graph.vars)}

PriorVarNames == {prior[i].name : i \in 1..Len(prior)}

\* The variables the L2 penalty sums over.
L2Vars == {graph.ops[i].vars[1] : i \in OpsOfKind("l2_loss")}

LossBuilt == graph.self.loss # 0

\* The loss is mean(softmax cross-entropy(scores, input_y)) + lambda * add_n(l2 terms).
LossShape ==
    LET L == graph.ops[graph.self.loss]
        mean == graph.ops[L.ins[1]]
        reg == graph.ops[L.ins[2]]
        xent == graph.ops[mean.ins[1]]
        sum == graph.ops[reg.ins[1]]
    IN /\ L.kind = "add" /\ Len(L.ins) = 2
       /\ mean.kind = "reduce_mean"
       /\ xent.kind = "softmax_cross_entropy_with_logits"
       /\ xent.ins = <<graph.self.scores, graph.self.input_y>>
       /\ reg.kind = "mul" /\ reg.coeff = args.l2_reg_lambda
       /\ sum.kind = "add_n"
       /\ Range(sum.ins) = OpsOfKind("l2_loss")
       /\ Len(sum.ins) = Cardinality(L2Vars)
       /\ (args.l2_reg_lambda = 0 => \A l2 \in 0..3, m \in 0..3 : m + reg.coeff * l2 = m)

\* C4 as stated: the L2 penalty sums over exactly the trainable variables the
\* model created during construction, and over no other variable.
C4_PenaltyOverOwnVariablesOnly ==
    LossBuilt =>
        /\ LossShape
        /\ L2Vars = {v \in GraphVarNames \ PriorVarNames : IsTrainable(v)}

\* C4, amended: the loss is the batch mean of the softmax cross-entropy plus
\* l2_reg_lambda times an L2 penalty over every trainable variable of the
\* default graph at that point: every trainable variable the model created
\* (convolution weights, batch-norm scale and offset, dense kernel and bias)
\* and every trainable variable that was in the graph before; no non-trainable
\* variable is summed; with l2_reg_lambda = 0 the penalty term is zero.
C4_PenaltyOverGraphTrainables ==
    LossBuilt =>
        /\ LossShape
        /\ L2Vars = {v \in GraphVarNames : IsTrainable(v)}
        /\ \A i \in 1..Len(graph.ops) : \A j \in 1..Len(graph.ops[i].vars) :
              (IsTrainable(graph.ops[i].vars[j]) <=> graph.ops[i].vars[j] \in L2Vars)
        /\ {v \in PriorVarNames : IsTrainable(v)} \subseteq L2Vars

C4_Witness ==
    /\ LossBuilt
    /\ prior # <<>>
    /\ args.l2_reg_lambda = 0
    /\ <<"BatchNorm", 0, "gamma">> \in L2Vars
    /\ <<"embedding", 0, "table">> \in L2Vars

\* The first index of row holding its maximum, 0-based, stated as a property.
FirstMax(row) ==
    CHOOSE c \in 0..(Len(row) - 1) :
        /\ \A d \in 1..Len(row) : row[d] <= row[c + 1]
        /\ \A d \in 1..c : row[d] < row[c + 1]

MatchingRows ==
    {r \in 1..Len(result.scores) : FirstMax(result.scores[r]) = FirstMax(result.input_y[r])}

\* C5: on a batch of at least one row, accuracy is the number of rows whose
\* predicted class (first maximal index of the scores row) equals the first
\* maximal index of the label row, divided by the batch size; predictions lie
\* in 0..n_classes-1 and accuracy lies in [0, 1].
C5_AccuracyIsMatchFraction ==
    (result.fed /\ Len(result.scores) >= 1) =>
        /\ Len(result.predictions) = Len(result.scores)
        /\ \A r \in 1..Len(result.scores) :
              /\ result.predictions[r] \in 0..(args.n_classes - 1)
              /\ result.predictions[r] = FirstMax(result.scores[r])
        /\ ~result.accuracy.nan
        /\ result.accuracy.den = Len(result.scores)
        /\ result.accuracy.num = Cardinality(MatchingRows)
        /\ 0 <= result.accuracy.num
        /\ result.accuracy.num <= result.accuracy.den

\* A batch of two rows, one right and one wrong, the right one through a tie.
C5_Witness ==
    /\ result.fed
    /\ Len(result.scores) = 2
    /\ args.n_classes = 2
    /\ result.scores[1] = <<1, 1>>
    /\ result.input_y[1] = <<1, 0>>
    /\ result.accuracy.num = 1
    /\ result.accuracy.den = 2

\* C6: for n_blocks >= 1 construction runs to completion, every weight
\* request resolving to a new variable: no request collides with an earlier
\* one and no two convolutions share a weight.
C6_WeightsDistinct ==
    args.n_blocks >= 1 =>
        /\ graph.error # "ValueError: Variable already exists"
        /\ \A i, j \in OpsOfKind("conv2d") : i # j => graph.ops[i].vars # graph.ops[j].vars
        /\ Terminated =>
              Cardinality(OpsOfKind("conv2d")) = 1 + 3 * (2 * args.n_blocks + 1)

\* C7: pre-activation placement: the stem convolution reads the raw input;
\* every other convolution reads ReLU(BN(.)), the 1x1 shortcut convolution the
\* same tensor as its block's conv_1; every batch norm is switched by
\* train_flag; a finished construction holds 6 * n_blocks + 1 batch norms.
C7_BatchNormPlacement ==
    /\ \A i \in OpsOfKind("batch_norm") : graph.ops[i].ins[2] = graph.self.train_flag
    /\ \A i \in OpsOfKind("conv2d") :
          IF graph.ops[i].scope = "conv_0"
          THEN graph.ops[i].ins = <<graph.self.input_x>>
          ELSE LET r == graph.ops[i].ins[1]
               IN /\ graph.ops[r].kind = "relu"
                  /\ graph.ops[graph.ops[r].ins[1]].kind = "batch_norm"
    /\ Terminated =>
          Cardinality(OpsOfKind("batch_norm")) = 6 * args.n_blocks + 1

\* C8: with n_blocks >= 1 and S the side after group 3, the pooling yields side
\* S - 7 and the flattened features have length (S - 7)^2 * out_channels[2] *
\* width_mult; the pooling is global exactly when 29 <= img_dim <= 32; scores
\* has n_classes columns.
C8_FeatureLength ==
    (args.n_blocks >= 1 /\ Terminated) =>
        /\ \E p \in OpsOfKind("avg_pool") :
              /\ ShapeOf(p) = <<GroupSide(3) - 7, GroupSide(3) - 7, GroupChannels(3)>>
              /\ (ShapeOf(p)[1] = 1 <=> (29 <= args.img_dim /\ args.img_dim <= 32))
        /\ \E f \in OpsOfKind("flatten") :
              ShapeOf(f) = <<(GroupSide(3) - 7) * (GroupSide(3) - 7) * GroupChannels(3)>>
        /\ graph.self.scores # 0
        /\ ShapeOf(graph.self.scores) = <<args.n_classes>>

\* C9: every residual addition has operands of one shape; the first block of
\* group g adds conv_2 and conv_3, both of side ceil(H / stride) and
\* out_channels channels, and every later block adds conv_2 to a shortcut of
\* that same shape.
C9_AdditionOperandShapes ==
    /\ \A i \in OpsOfKind("add") :
          graph.ops[i].scope # "loss" =>
             ShapeOf(graph.ops[i].ins[1]) = ShapeOf(graph.ops[i].ins[2])
    /\ \A g \in 1..3 :
          (args.n_blocks >= 1 /\ GroupEnded(g)) =>
             \E i \in OpsOfKind("add") :
                /\ graph.ops[i].scope = NameScope(g, 1, "conv_3")
                /\ ShapeOf(graph.ops[i].ins[1]) = GroupShape(g)
                /\ ShapeOf(graph.ops[i].ins[2]) = GroupShape(g)
                /\ graph.ops[graph.ops[i].ins[2]].k = 1

\* The stage operator of each stage name.
StageOp(stage, a, G) ==
    CASE stage = "placeholders" -> Placeholders(a, G)
      [] stage = "conv_0" -> Conv0(a, G)
      [] stage = "group_1" -> ResGroupStage(a, G, 1)
      [] stage = "group_2" -> ResGroupStage(a, G, 2)
      [] stage = "group_3" -> ResGroupStage(a, G, 3)
      [] stage = "bn_relu" -> FinalBnRelu(a, G)
      [] stage = "avg_pool" -> AvgPool(a, G)
      [] stage = "classifier" -> Classifier(a, G)
      [] stage = "loss" -> Loss(a, G)
      [] stage = "accuracy" -> Accuracy(a, G)

\* The graph a construction with arguments a leaves after its first k stages.
RECURSIVE GraphAfter(_, _, _)
GraphAfter(a, p, k) ==
    IF k = 0 THEN InitGraph(p)
    ELSE Then(GraphAfter(a, p, k - 1), LAMBDA G :
            IF G.error # NoErr THEN G ELSE StageOp(AllStages[k], a, G))

TrainingKinds == {"minimize", "train_op", "gradients", "apply_gradients", "assign"}

\* C10: learning_rate does not reach the graph: a construction that differs
\* only in learning_rate has, stage for stage, the same operations, variables,
\* shapes, wiring and outcome; no optimizer or training operation exists.
C10_LearningRateUnused ==
    /\ \A lr \in LearningRates :
          graph = GraphAfter([args EXCEPT !.learning_rate = lr], prior, StagesLeft)
    /\ \A i \in 1..Len(graph.ops) : graph.ops[i].kind \notin TrainingKinds

\* A finished construction, compared with the one at the other learning rate.
C10_Witness ==
    /\ pc = "done"
    /\ args.learning_rate = 2
    /\ graph.self.accuracy # 0
    /\ graph = GraphAfter([args EXCEPT !.learning_rate = 1], prior, Len(AllStages))

====
